---- MODULE Spec2Model ----
(***************************************************************************)
(* Model of deep_sort_realtime/deep_sort/track.py: the life cycle of one   *)
(* Track (Tentative -> Confirmed -> Deleted), its counters, its feature    *)
(* cache, its trajectory and the snapshot of the last matched detection.   *)
(*                                                                         *)
(* A Python object is a record; a Python list is a sequence; an ndarray is *)
(* a tuple of integers.  Every optional value is either None (the empty    *)
(* tuple) or a non-empty tuple, so that "x is None" is the comparison      *)
(* x = None for every field.                                               *)
(***************************************************************************)
EXTENDS Integers, Sequences, FiniteSets, TLC

\* ---------------------------------------------------------------- bounds
\* largest n_init a track is constructed with
NInitMax == 3
\* largest max_age a track is constructed with
MaxAgeMax == 2
\* number of predict/update/mark_missed calls made on one track, any order
MaxCalls == 4
\* number of calls made on one track when the caller keeps the cycle order
MaxCycleCalls == 10
\* number of mutator and accessor calls made on one track, any order
MaxQueryCalls == 3
\* number of predict and update calls made in the three-detection scenario
MaxScenarioCalls == 5

\* ------------------------------------------------------------ TrackState
Tentative == 1
Confirmed == 2
Deleted == 3

None == <<>>

\* ------------------------------------------------- values of the inputs
\* raw detector boxes (left, top, width, height)
Boxes == { <<0, 0, 1, 1>>, <<1, 0, 3, 2>> }

\* The motion filter is an external collaborator: what it returns for a
\* (mean, covariance) pair is not decided by this file.  A belief is the
\* pair it returns; mean holds (center x, center y, aspect ratio, height).
Beliefs ==
  { [mean |-> <<2, 2, 1, 2>>, covariance |-> <<1>>],
    [mean |-> <<4, 3, 2, 2>>, covariance |-> <<2>>] }

\* kf.predict(mean, covariance) and kf.update(mean, covariance, xyah)
kf_predict(mean, covariance) == Beliefs
kf_update(mean, covariance, xyah) == Beliefs

\* The detections handed to update: get_ltwh(), feature, confidence,
\* class_name, instance_mask, others.  A detection always carries a box; its
\* feature vector, instance mask and supplementary data may be absent.
Detections ==
  [ ltwh : Boxes,
    feature : { <<0, 1>> },
    confidence : { <<9>> },
    class_name : { <<"car">> },
    instance_mask : { <<1, 1>> },
    others : { <<"plate">> } ]
  \cup
  [ ltwh : { <<1, 0, 3, 2>> },
    feature : { None },
    confidence : { <<5>> },
    class_name : { <<"bus">> },
    instance_mask : { None },
    others : { None } ]

\* detection.to_xyah(): (center x, center y, aspect ratio, height); the
\* filter is opaque here, so only the box it is computed from matters
to_xyah(detection) == detection.ltwh

\* ------------------------------------------------------------- the Track
\* Track.to_center without the half of (width, height)
to_center_is_top_left(t) ==
  LET ret == t.original_ltwh
  IN  << ret[1], ret[2] >>

\* Track.to_center: top-left plus half of (width, height), floor division
to_center(t) ==
  LET ret == t.original_ltwh
  IN  << ret[1] + (ret[3] \div 2), ret[2] + (ret[4] \div 2) >>

\* Track.__init__ with the hit counter started at 0 instead of 1
Track_hits_from_zero(mean, covariance, track_id, n_init, max_age, feature, original_ltwh, det_class, det_conf, instance_mask, others) ==
  LET t0 == [ mean |-> mean,
              covariance |-> covariance,
              track_id |-> track_id,
              hits |-> 0,
              age |-> 1,
              time_since_update |-> 0,
              state |-> Tentative,
              features |-> IF feature # None THEN <<feature>> ELSE <<>>,
              latest_feature |-> IF feature # None THEN feature ELSE None,
              n_init |-> n_init,
              max_age |-> max_age,
              original_ltwh |-> original_ltwh,
              det_class |-> det_class,
              det_conf |-> det_conf,
              instance_mask |-> instance_mask,
              others |-> others,
              trajectory |-> <<>> ]
  IN  IF original_ltwh # None
        THEN [t0 EXCEPT !.trajectory = Append(@, to_center(t0))]
        ELSE t0

\* Track.__init__
Track(mean, covariance, track_id, n_init, max_age, feature, original_ltwh, det_class, det_conf, instance_mask, others) ==
  LET t0 == [ mean |-> mean,
              covariance |-> covariance,
              track_id |-> track_id,
              hits |-> 1,
              age |-> 1,
              time_since_update |-> 0,
              state |-> Tentative,
              features |-> IF feature # None THEN <<feature>> ELSE <<>>,
              latest_feature |-> IF feature # None THEN feature ELSE None,
              n_init |-> n_init,
              max_age |-> max_age,
              original_ltwh |-> original_ltwh,
              det_class |-> det_class,
              det_conf |-> det_conf,
              instance_mask |-> instance_mask,
              others |-> others,
              trajectory |-> <<>> ]
  IN  IF original_ltwh # None
        THEN [t0 EXCEPT !.trajectory = Append(@, to_center(t0))]
        ELSE t0

\* Track.predict clearing det_class with the rest of the detection snapshot
predict_clears_det_class(t, kf) ==
  [t EXCEPT !.mean = kf.mean,
            !.covariance = kf.covariance,
            !.age = @ + 1,
            !.time_since_update = @ + 1,
            !.original_ltwh = None,
            !.det_class = None,
            !.det_conf = None,
            !.instance_mask = None,
            !.others = None]

\* Track.predict deleting a track whose time_since_update exceeds max_age
predict_deletes_stale(t, kf) ==
  [t EXCEPT !.mean = kf.mean,
            !.covariance = kf.covariance,
            !.age = @ + 1,
            !.time_since_update = @ + 1,
            !.state = IF t.time_since_update + 1 > t.max_age THEN Deleted ELSE @,
            !.original_ltwh = None,
            !.det_conf = None,
            !.instance_mask = None,
            !.others = None]

\* Track.predict leaving others as the last detection set it
predict_keeps_others(t, kf) ==
  [t EXCEPT !.mean = kf.mean,
            !.covariance = kf.covariance,
            !.age = @ + 1,
            !.time_since_update = @ + 1,
            !.original_ltwh = None,
            !.det_conf = None,
            !.instance_mask = None]

\* Track.predict doing nothing on a Deleted track
predict_skips_deleted(t, kf) ==
  IF t.state = Deleted
    THEN t
    ELSE [t EXCEPT !.mean = kf.mean,
                   !.covariance = kf.covariance,
                   !.age = @ + 1,
                   !.time_since_update = @ + 1,
                   !.original_ltwh = None,
                   !.det_conf = None,
                   !.instance_mask = None,
                   !.others = None]

\* Track.predict, given the pair kf.predict returned
predict(t, kf) ==
  [t EXCEPT !.mean = kf.mean,
            !.covariance = kf.covariance,
            !.age = @ + 1,
            !.time_since_update = @ + 1,
            !.original_ltwh = None,
            !.det_conf = None,
            !.instance_mask = None,
            !.others = None]

\* Track.update confirming only once hits exceeds n_init
update_confirms_above_n_init(t, kf, detection) ==
  LET t1 == [t EXCEPT !.original_ltwh = detection.ltwh,
                      !.mean = kf.mean,
                      !.covariance = kf.covariance,
                      !.features = Append(@, detection.feature),
                      !.latest_feature = detection.feature,
                      !.det_conf = detection.confidence,
                      !.det_class = detection.class_name,
                      !.instance_mask = detection.instance_mask,
                      !.others = detection.others]
      t2 == [t1 EXCEPT !.trajectory = Append(@, to_center(t1)),
                       !.hits = @ + 1,
                       !.time_since_update = 0]
  IN  IF t2.state = Tentative /\ t2.hits > t2.n_init
        THEN [t2 EXCEPT !.state = Confirmed]
        ELSE t2

\* Track.update confirming without looking at the state
update_confirms_any_state(t, kf, detection) ==
  LET t1 == [t EXCEPT !.original_ltwh = detection.ltwh,
                      !.mean = kf.mean,
                      !.covariance = kf.covariance,
                      !.features = Append(@, detection.feature),
                      !.latest_feature = detection.feature,
                      !.det_conf = detection.confidence,
                      !.det_class = detection.class_name,
                      !.instance_mask = detection.instance_mask,
                      !.others = detection.others]
      t2 == [t1 EXCEPT !.trajectory = Append(@, to_center(t1)),
                       !.hits = @ + 1,
                       !.time_since_update = 0]
  IN  IF t2.hits >= t2.n_init
        THEN [t2 EXCEPT !.state = Confirmed]
        ELSE t2

\* Track.update without the reset of time_since_update
update_keeps_time_since_update(t, kf, detection) ==
  LET t1 == [t EXCEPT !.original_ltwh = detection.ltwh,
                      !.mean = kf.mean,
                      !.covariance = kf.covariance,
                      !.features = Append(@, detection.feature),
                      !.latest_feature = detection.feature,
                      !.det_conf = detection.confidence,
                      !.det_class = detection.class_name,
                      !.instance_mask = detection.instance_mask,
                      !.others = detection.others]
      t2 == [t1 EXCEPT !.trajectory = Append(@, to_center(t1)),
                       !.hits = @ + 1]
  IN  IF t2.state = Tentative /\ t2.hits >= t2.n_init
        THEN [t2 EXCEPT !.state = Confirmed]
        ELSE t2

\* Track.update caching the feature only when it is present
update_skips_absent_feature(t, kf, detection) ==
  LET t1 == [t EXCEPT !.original_ltwh = detection.ltwh,
                      !.mean = kf.mean,
                      !.covariance = kf.covariance,
                      !.features = IF detection.feature # None THEN Append(@, detection.feature) ELSE @,
                      !.latest_feature = IF detection.feature # None THEN detection.feature ELSE @,
                      !.det_conf = detection.confidence,
                      !.det_class = detection.class_name,
                      !.instance_mask = detection.instance_mask,
                      !.others = detection.others]
      t2 == [t1 EXCEPT !.trajectory = Append(@, to_center(t1)),
                       !.hits = @ + 1,
                       !.time_since_update = 0]
  IN  IF t2.state = Tentative /\ t2.hits >= t2.n_init
        THEN [t2 EXCEPT !.state = Confirmed]
        ELSE t2

\* Track.update counting a hit only when the detection has a feature
update_counts_hit_with_feature(t, kf, detection) ==
  LET t1 == [t EXCEPT !.original_ltwh = detection.ltwh,
                      !.mean = kf.mean,
                      !.covariance = kf.covariance,
                      !.features = Append(@, detection.feature),
                      !.latest_feature = detection.feature,
                      !.det_conf = detection.confidence,
                      !.det_class = detection.class_name,
                      !.instance_mask = detection.instance_mask,
                      !.others = detection.others]
      t2 == [t1 EXCEPT !.trajectory = Append(@, to_center(t1)),
                       !.hits = IF detection.feature # None THEN @ + 1 ELSE @,
                       !.time_since_update = 0]
  IN  IF t2.state = Tentative /\ t2.hits >= t2.n_init
        THEN [t2 EXCEPT !.state = Confirmed]
        ELSE t2

\* Track.update, given the detection and the pair kf.update returned
update(t, kf, detection) ==
  LET t1 == [t EXCEPT !.original_ltwh = detection.ltwh,
                      !.mean = kf.mean,
                      !.covariance = kf.covariance,
                      !.features = Append(@, detection.feature),
                      !.latest_feature = detection.feature,
                      !.det_conf = detection.confidence,
                      !.det_class = detection.class_name,
                      !.instance_mask = detection.instance_mask,
                      !.others = detection.others]
      t2 == [t1 EXCEPT !.trajectory = Append(@, to_center(t1)),
                       !.hits = @ + 1,
                       !.time_since_update = 0]
  IN  IF t2.state = Tentative /\ t2.hits >= t2.n_init
        THEN [t2 EXCEPT !.state = Confirmed]
        ELSE t2

\* Track.mark_missed without the Tentative branch
mark_missed_by_age_only(t) ==
  IF t.time_since_update > t.max_age
    THEN [t EXCEPT !.state = Deleted]
    ELSE t

\* Track.mark_missed deleting as soon as time_since_update equals max_age
mark_missed_at_max_age(t) ==
  IF t.state = Tentative
    THEN [t EXCEPT !.state = Deleted]
    ELSE IF t.time_since_update >= t.max_age
           THEN [t EXCEPT !.state = Deleted]
           ELSE t

\* Track.mark_missed comparing age, not time_since_update, with max_age
mark_missed_compares_age(t) ==
  IF t.state = Tentative
    THEN [t EXCEPT !.state = Deleted]
    ELSE IF t.age > t.max_age
           THEN [t EXCEPT !.state = Deleted]
           ELSE t

\* Track.mark_missed giving a Tentative track one miss of grace
mark_missed_tentative_grace(t) ==
  IF t.state = Tentative /\ t.time_since_update > 1
    THEN [t EXCEPT !.state = Deleted]
    ELSE IF t.time_since_update > t.max_age
           THEN [t EXCEPT !.state = Deleted]
           ELSE t

\* Track.mark_missed counting the miss in time_since_update
mark_missed_counts_miss(t) ==
  IF t.state = Tentative
    THEN [t EXCEPT !.state = Deleted, !.time_since_update = @ + 1]
    ELSE IF t.time_since_update > t.max_age
           THEN [t EXCEPT !.state = Deleted, !.time_since_update = @ + 1]
           ELSE [t EXCEPT !.time_since_update = @ + 1]

\* Track.mark_missed
mark_missed(t) ==
  IF t.state = Tentative
    THEN [t EXCEPT !.state = Deleted]
    ELSE IF t.time_since_update > t.max_age
           THEN [t EXCEPT !.state = Deleted]
           ELSE t

\* -------------------------------------------------- geometry accessors
\* An ndarray the track holds is reached through a reference: `of` names the
\* field, `val` is its content, and `view` tells whether an in-place write
\* through the reference lands in the track's own array.
\* self.original_ltwh, self.mean[:4]: the track's own array
array_of(t, field) == [of |-> field, view |-> TRUE, val |-> t[field]]

\* the result of an accessor that has no box to return
NoArray == [of |-> "none", view |-> FALSE, val |-> None]

\* ndarray.copy() handing back the array itself
copy_returns_view(a) == a

\* ndarray.copy(): a fresh array with the same content
copy(a) == [a EXCEPT !.view = FALSE]

\* an in-place write (ret[2] *= ..., ret[:2] += ..., ret[2:] = ...): the
\* track after it and the reference written through
assign(t, a, val) ==
  [self |-> IF a.view THEN [t EXCEPT ![a.of] = val] ELSE t,
   ret |-> [a EXCEPT !.val = val]]

\* Track.to_center as a call: the track after it and the value returned
call_to_center(t) ==
  LET ret == copy(array_of(t, "original_ltwh"))
      v == ret.val
      c == assign(t, ret, << v[1] + (v[3] \div 2), v[2] + (v[4] \div 2), v[3], v[4] >>)
  IN  [self |-> c.self, ret |-> SubSeq(c.ret.val, 1, 2)]

\* Track.to_ltwh returning the filter's box even when orig_strict is set
call_to_ltwh_ignores_strict(t, orig, orig_strict) ==
  IF orig /\ t.original_ltwh # None
    THEN [self |-> t, ret |-> copy(array_of(t, "original_ltwh"))]
    ELSE LET ret == copy(array_of(t, "mean"))
             c1 == assign(t, ret, [ret.val EXCEPT ![3] = @ * ret.val[4]])
             v == c1.ret.val
         IN  assign(c1.self, c1.ret,
                    << v[1] - (v[3] \div 2), v[2] - (v[4] \div 2), v[3], v[4] >>)

\* Track.to_ltwh as a call: the track after it and the array returned.
\* ret[2:] / 2 is true division; the means the filter returns here have an
\* even width and an even height, on which it is the integer quotient.
call_to_ltwh(t, orig, orig_strict) ==
  IF orig /\ t.original_ltwh # None
    THEN [self |-> t, ret |-> copy(array_of(t, "original_ltwh"))]
    ELSE IF orig /\ orig_strict
      THEN [self |-> t, ret |-> NoArray]
      ELSE LET ret == copy(array_of(t, "mean"))
               c1 == assign(t, ret, [ret.val EXCEPT ![3] = @ * ret.val[4]])
               v == c1.ret.val
           IN  assign(c1.self, c1.ret,
                      << v[1] - (v[3] \div 2), v[2] - (v[4] \div 2), v[3], v[4] >>)

\* Track.to_ltrb adding the left edge to both the width and the height
call_to_ltrb_adds_left_twice(t, orig, orig_strict) ==
  LET c == call_to_ltwh(t, orig, orig_strict)
      v == c.ret.val
  IN  IF v # None
        THEN assign(c.self, c.ret, << v[1], v[2], v[1] + v[3], v[1] + v[4] >>)
        ELSE c

\* Track.to_ltrb as a call: the track after it and the array returned
call_to_ltrb(t, orig, orig_strict) ==
  LET c == call_to_ltwh(t, orig, orig_strict)
      v == c.ret.val
  IN  IF v # None
        THEN assign(c.self, c.ret, << v[1], v[2], v[1] + v[3], v[2] + v[4] >>)
        ELSE c

\* the values Track.to_ltwh, to_tlwh, to_ltrb, to_tlbr return
to_ltwh(t, orig, orig_strict) == call_to_ltwh(t, orig, orig_strict).ret.val
to_tlwh(t, orig, orig_strict) == to_ltwh(t, orig, orig_strict)
to_ltrb(t, orig, orig_strict) == call_to_ltrb(t, orig, orig_strict).ret.val
to_tlbr(t, orig, orig_strict) == to_ltrb(t, orig, orig_strict)

\* ------------------------------------------------ kinematic derivations
\* 1 / 1e-07, the epsilon get_trajectory_slope adds to diff_x
SlopeEpsilonInverse == 10000000

\* Track.get_velocity.  A length (np.sqrt of a sum of squares) is carried as
\* that sum of squares; a direction as the pair (velocity, sum of squares)
\* standing for velocity / (length + 1e-8), whose divisor is never 0; the
\* average as the pair (lengths, their number).
get_velocity(t, fps) ==
  IF Len(t.trajectory) < 2
    THEN << None, None, None >>
    ELSE LET trajectory_array == t.trajectory
             n == Len(trajectory_array) - 1
             velocity ==
               [i \in 1..n |->
                 << (trajectory_array[i + 1][1] - trajectory_array[i][1]) * fps,
                    (trajectory_array[i + 1][2] - trajectory_array[i][2]) * fps >>]
             velocity_magnitude ==
               [i \in 1..n |->
                 << velocity[i][1] * velocity[i][1] + velocity[i][2] * velocity[i][2] >>]
             velocity_direction ==
               [i \in 1..n |-> << velocity[i], velocity_magnitude[i] >>]
             average_velocity == << velocity_magnitude, n >>
         IN  << average_velocity, velocity_magnitude, velocity_direction >>

\* Track.get_trajectory_slope answering for a single point too
get_trajectory_slope_from_one_point(t) ==
  IF Len(t.trajectory) < 1
    THEN None
    ELSE LET trajectory_array == t.trajectory
             last == trajectory_array[Len(trajectory_array)]
             diff_y == last[2] - trajectory_array[1][2]
             diff_x == (last[1] - trajectory_array[1][1]) * SlopeEpsilonInverse + 1
         IN  << diff_y * SlopeEpsilonInverse, diff_x >>

\* Track.get_trajectory_slope.  The slope diff_y / (diff_x + 1e-07) is the
\* fraction (numerator, denominator) with both scaled by 1e7; on integer
\* points the denominator is never 0.
get_trajectory_slope(t) ==
  IF Len(t.trajectory) < 2
    THEN None
    ELSE LET trajectory_array == t.trajectory
             last == trajectory_array[Len(trajectory_array)]
             diff_y == last[2] - trajectory_array[1][2]
             diff_x == (last[1] - trajectory_array[1][1]) * SlopeEpsilonInverse + 1
         IN  << diff_y * SlopeEpsilonInverse, diff_x >>

\* ------------------------------------------------------------- the state
VARIABLES
  self,       \* the Track object
  op,         \* the last call made on it: "init", "predict", "update", "mark_missed"
  before,     \* the Track object as it was when that call began
  detection,  \* the detection passed to that call (None unless it is update)
  calls,      \* number of calls made since construction
  misses,     \* mark_missed calls made since the last update (or construction)
  count       \* predict calls, update calls, and predict calls since the last
              \* update (or construction), made so far

vars == << self, op, before, detection, calls, misses, count >>

\* arguments the owning tracker constructs a track with
NInits == 1..NInitMax
MaxAges == 0..MaxAgeMax
TrackIds == {1}

\* Optional constructor arguments: each is None when omitted.  The tracker
\* passes the fields of the detection the track originates from.
Constructed ==
  { Track(b.mean, b.covariance, id, n, m, f, o, meta[1], meta[2], meta[3], meta[4]) :
      b \in Beliefs, id \in TrackIds, n \in NInits, m \in MaxAges,
      f \in { None, <<1, 0>> }, o \in { None, <<0, 0, 1, 1>> },
      meta \in { <<None, None, None, None>>,
                 << <<"car">>, <<9>>, <<1, 1>>, <<"plate">> >> } }

InitWith(tracks) ==
  /\ self \in tracks
  /\ op = "init"
  /\ before = self
  /\ detection = None
  /\ calls = 0
  /\ misses = 0
  /\ count = [predict |-> 0, update |-> 0, predict_since_update |-> 0]

Init == InitWith(Constructed)

DoPredict(kf) ==
  /\ self' = predict(self, kf)
  /\ op' = "predict"
  /\ before' = self
  /\ detection' = None
  /\ calls' = calls + 1
  /\ UNCHANGED misses
  /\ count' = [count EXCEPT !.predict = @ + 1, !.predict_since_update = @ + 1]

DoUpdate(kf, d) ==
  /\ self' = update(self, kf, d)
  /\ op' = "update"
  /\ before' = self
  /\ detection' = d
  /\ calls' = calls + 1
  /\ misses' = 0
  /\ count' = [count EXCEPT !.update = @ + 1, !.predict_since_update = 0]

DoMarkMissed ==
  /\ self' = mark_missed(self)
  /\ op' = "mark_missed"
  /\ before' = self
  /\ detection' = None
  /\ calls' = calls + 1
  /\ misses' = misses + 1
  /\ UNCHANGED count

\* the three mutators called in any order
Predict ==
  /\ calls < MaxCalls
  /\ \E kf \in kf_predict(self.mean, self.covariance) : DoPredict(kf)

Update ==
  /\ calls < MaxCalls
  /\ \E d \in Detections :
       \E kf \in kf_update(self.mean, self.covariance, to_xyah(d)) :
         DoUpdate(kf, d)

MarkMissed ==
  /\ calls < MaxCalls
  /\ DoMarkMissed

Next == Predict \/ Update \/ MarkMissed

Spec == Init /\ [][Next]_vars

\* The owning tracker's cycle: one predict, then exactly one of update or
\* mark_missed, on every live track
CyclePredict ==
  /\ calls < MaxCycleCalls
  /\ op # "predict"
  /\ \E kf \in kf_predict(self.mean, self.covariance) : DoPredict(kf)

CycleUpdate ==
  /\ calls < MaxCycleCalls
  /\ op = "predict"
  /\ \E d \in Detections :
       \E kf \in kf_update(self.mean, self.covariance, to_xyah(d)) :
         DoUpdate(kf, d)

CycleMarkMissed ==
  /\ calls < MaxCycleCalls
  /\ op = "predict"
  /\ DoMarkMissed

CycleNext == CyclePredict \/ CycleUpdate \/ CycleMarkMissed

CycleSpec == Init /\ [][CycleNext]_vars

\* The accessors called between the mutators, in any order.  A call of an
\* accessor leaves the track as the accessor's own writes leave it.
DoQuery(name, after) ==
  /\ self' = after
  /\ op' = name
  /\ before' = self
  /\ detection' = None
  /\ calls' = calls + 1
  /\ UNCHANGED << misses, count >>

ToCenter ==
  /\ calls < MaxQueryCalls
  /\ self.original_ltwh # None
  /\ DoQuery("to_center", call_to_center(self).self)

ToLtwh ==
  /\ calls < MaxQueryCalls
  /\ \E orig \in BOOLEAN, orig_strict \in BOOLEAN :
       DoQuery("to_ltwh", call_to_ltwh(self, orig, orig_strict).self)

ToTlwh ==
  /\ calls < MaxQueryCalls
  /\ \E orig \in BOOLEAN, orig_strict \in BOOLEAN :
       DoQuery("to_tlwh", call_to_ltwh(self, orig, orig_strict).self)

ToLtrb ==
  /\ calls < MaxQueryCalls
  /\ \E orig \in BOOLEAN, orig_strict \in BOOLEAN :
       DoQuery("to_ltrb", call_to_ltrb(self, orig, orig_strict).self)

ToTlbr ==
  /\ calls < MaxQueryCalls
  /\ \E orig \in BOOLEAN, orig_strict \in BOOLEAN :
       DoQuery("to_tlbr", call_to_ltrb(self, orig, orig_strict).self)

QueryPredict ==
  /\ calls < MaxQueryCalls
  /\ \E kf \in kf_predict(self.mean, self.covariance) : DoPredict(kf)

QueryUpdate ==
  /\ calls < MaxQueryCalls
  /\ \E d \in Detections :
       \E kf \in kf_update(self.mean, self.covariance, to_xyah(d)) :
         DoUpdate(kf, d)

QueryMarkMissed ==
  /\ calls < MaxQueryCalls
  /\ DoMarkMissed

QueryNext ==
  \/ QueryPredict
  \/ QueryUpdate
  \/ QueryMarkMissed
  \/ ToCenter
  \/ ToLtwh
  \/ ToTlwh
  \/ ToLtrb
  \/ ToTlbr

QuerySpec == Init /\ [][QueryNext]_vars

\* The three-detection scenario: a track built with n_init = 3, max_age = 2
\* and no original box is updated three times, the k-th time with a
\* detection whose box has center ScenarioCenters[k]; the tracker may call
\* predict in between.
ScenarioCenters == << <<0, 0>>, <<1, 0>>, <<2, 0>> >>

ScenarioBoxes(center) ==
  { b \in (-1..2) \X (-1..0) \X (1..3) \X (1..2) :
      /\ b[1] + (b[3] \div 2) = center[1]
      /\ b[2] + (b[4] \div 2) = center[2] }

ScenarioDetections(center) ==
  [ ltwh : ScenarioBoxes(center),
    feature : { <<0, 1>>, None },
    confidence : { <<9>> },
    class_name : { <<"car">> },
    instance_mask : { None },
    others : { None } ]

ScenarioInit ==
  InitWith({ t \in Constructed :
               t.n_init = 3 /\ t.max_age = 2 /\ t.original_ltwh = None })

ScenarioPredict ==
  /\ calls < MaxScenarioCalls
  /\ \E kf \in kf_predict(self.mean, self.covariance) : DoPredict(kf)

ScenarioUpdate ==
  /\ calls < MaxScenarioCalls
  /\ count.update < Len(ScenarioCenters)
  /\ \E d \in ScenarioDetections(ScenarioCenters[count.update + 1]) :
       \E kf \in kf_update(self.mean, self.covariance, to_xyah(d)) :
         DoUpdate(kf, d)

ScenarioNext == ScenarioPredict \/ ScenarioUpdate

ScenarioSpec == ScenarioInit /\ [][ScenarioNext]_vars

\* ------------------------------------------------------------ properties

\* C1: immediately after construction, whatever n_init, max_age and the
\* optional arguments are, the track is Tentative with hits = 1, age = 1 and
\* time_since_update = 0.
C1_FreshTrack ==
  op = "init" =>
    /\ self.state = Tentative
    /\ self.hits = 1
    /\ self.age = 1
    /\ self.time_since_update = 0

C1_Witness ==
  /\ op = "init"
  /\ self.n_init = NInitMax
  /\ self.max_age = 0
  /\ self.features # <<>>
  /\ self.trajectory # <<>>
  /\ self.det_class # None

\* C2: a track goes from Tentative to Confirmed exactly on the update call
\* whose post-increment hits is the first to reach n_init (hits >= n_init):
\* an update of a Tentative track confirms it iff hits has then reached
\* n_init, no earlier update had reached it, no other call confirms, and no
\* call makes a track Tentative again.
C2_ConfirmedExactlyAtNInit ==
  /\ (op = "update" /\ before.state = Tentative) =>
       (self.state = Confirmed <=> self.hits >= self.n_init)
  /\ (before.state = Tentative /\ self.state = Confirmed) =>
       /\ op = "update"
       /\ before.hits < self.n_init \/ before.hits = 1
  /\ (before.state # Confirmed /\ self.state = Confirmed) =>
       before.state = Tentative
  /\ self.state = Tentative =>
       /\ before.state = Tentative
       /\ self.hits < self.n_init \/ self.hits = 1

C2_Witness ==
  /\ op = "update"
  /\ before.state = Tentative
  /\ self.state = Confirmed
  /\ self.n_init = 3
  /\ self.hits = 3
  /\ self.age > 1

\* C3: mark_missed on a Tentative track leaves it Deleted, whatever its age,
\* hits, time_since_update and max_age are.
C3_MissedTentativeIsDeleted ==
  (op = "mark_missed" /\ before.state = Tentative) => self.state = Deleted

C3_Witness ==
  /\ op = "mark_missed"
  /\ before.state = Tentative
  /\ before.age > 1
  /\ before.hits > 1
  /\ before.time_since_update <= before.max_age
  /\ self.state = Deleted

\* C4: mark_missed on a Confirmed track leaves it Deleted iff
\* time_since_update > max_age when it is called; otherwise it stays
\* Confirmed.
C4_MissedConfirmed ==
  (op = "mark_missed" /\ before.state = Confirmed) =>
    IF before.time_since_update > before.max_age
      THEN self.state = Deleted
      ELSE self.state = Confirmed

C4_Witness ==
  /\ op = "mark_missed"
  /\ before.state = Confirmed
  /\ before.time_since_update = before.max_age + 1
  /\ before.max_age >= 1
  /\ self.state = Deleted

\* C5: Deleted is absorbing: no predict, update or mark_missed call takes a
\* Deleted track to another state.
C5_DeletedIsAbsorbing ==
  [][self.state = Deleted => self'.state = Deleted]_vars

C5_Witness ==
  /\ op = "update"
  /\ before.state = Deleted
  /\ self.hits >= self.n_init
  /\ self.state = Deleted

\* C6: predict adds exactly 1 to age and to time_since_update and leaves
\* state, hits, features, trajectory and det_class as they were, in every
\* state of the track.
C6_PredictFrame ==
  op = "predict" =>
    /\ self.age = before.age + 1
    /\ self.time_since_update = before.time_since_update + 1
    /\ self.state = before.state
    /\ self.hits = before.hits
    /\ self.features = before.features
    /\ self.trajectory = before.trajectory
    /\ self.det_class = before.det_class

C6_Witness ==
  /\ op = "predict"
  /\ before.state = Deleted
  /\ before.det_class # None
  /\ before.features # <<>>
  /\ before.trajectory # <<>>
  /\ before.time_since_update > 0

\* C7: every update sets time_since_update to 0, adds exactly 1 to hits,
\* appends exactly one element to features and exactly one element, the
\* center of the detection's box, to trajectory, and keeps the earlier
\* elements of both sequences.
C7_UpdateAppends ==
  op = "update" =>
    LET nf == Len(before.features)
        nt == Len(before.trajectory)
        box == detection.ltwh
    IN  /\ self.time_since_update = 0
        /\ self.hits = before.hits + 1
        /\ Len(self.features) = nf + 1
        /\ SubSeq(self.features, 1, nf) = before.features
        /\ Len(self.trajectory) = nt + 1
        /\ SubSeq(self.trajectory, 1, nt) = before.trajectory
        /\ self.trajectory[nt + 1] =
             << box[1] + (box[3] \div 2), box[2] + (box[4] \div 2) >>

C7_Witness ==
  /\ op = "update"
  /\ Len(before.features) >= 1
  /\ Len(before.trajectory) >= 1
  /\ before.time_since_update >= 1
  /\ detection.ltwh[3] > 1

\* C8, as the claim states it: an update whose detection has no feature
\* vector leaves features and latest_feature as they were while hits is
\* still incremented.
C8_AbsentFeatureLeavesCache ==
  (op = "update" /\ detection.feature = None) =>
    /\ self.features = before.features
    /\ self.latest_feature = before.latest_feature
    /\ self.hits = before.hits + 1

\* C8, amended: an update whose detection has no feature vector appends that
\* absent value (None) to features and sets latest_feature to None, while
\* hits is still incremented.
C8_AbsentFeatureIsAppended ==
  (op = "update" /\ detection.feature = None) =>
    /\ self.features = Append(before.features, None)
    /\ self.latest_feature = None
    /\ self.hits = before.hits + 1

C8_Witness ==
  /\ op = "update"
  /\ detection.feature = None
  /\ before.features # <<>>
  /\ before.latest_feature # None

\* C9: under the tracker's cycle, a Confirmed track that is missed in
\* consecutive cycles with no update in between stays Confirmed through its
\* first max_age misses and becomes Deleted exactly on miss max_age + 1,
\* when time_since_update is max_age + 1 (3 for max_age = 2).
C9_DeletedOnMissMaxAgePlusOne ==
  (op = "mark_missed" /\ before.state = Confirmed) =>
    IF misses <= self.max_age
      THEN self.state = Confirmed
      ELSE /\ misses = self.max_age + 1
           /\ self.time_since_update = self.max_age + 1
           /\ self.state = Deleted

C9_Witness ==
  /\ op = "mark_missed"
  /\ before.state = Confirmed
  /\ self.state = Deleted
  /\ self.max_age = 2
  /\ misses = 3
  /\ self.time_since_update = 3

\* C10: under the tracker's cycle, a miss within the first n_init frames of
\* a track's life (age <= n_init) leaves the track Deleted.
C10_EarlyMissDeletes ==
  (op = "mark_missed" /\ self.age <= self.n_init) => self.state = Deleted

C10_Witness ==
  /\ op = "mark_missed"
  /\ self.age = self.n_init
  /\ before.state = Tentative
  /\ before.hits > 1
  /\ self.state = Deleted

\* C11: with orig and orig_strict set, to_ltwh and to_ltrb return None
\* whenever original_ltwh is absent; with orig set and orig_strict not set
\* they then return the filter-derived box; with orig set and original_ltwh
\* present they return the original box (to_ltrb in corner form).
C11_OriginalBoxModes ==
  LET m == self.mean
      w == m[3] * m[4]
      kf_box == << m[1] - (w \div 2), m[2] - (m[4] \div 2), w, m[4] >>
      o == self.original_ltwh
      corners(b) == << b[1], b[2], b[1] + b[3], b[2] + b[4] >>
  IN  /\ o = None =>
           /\ to_ltwh(self, TRUE, TRUE) = None
           /\ to_ltrb(self, TRUE, TRUE) = None
           /\ to_ltwh(self, TRUE, FALSE) = kf_box
           /\ to_ltrb(self, TRUE, FALSE) = corners(kf_box)
      /\ o # None =>
           \A orig_strict \in BOOLEAN :
             /\ to_ltwh(self, TRUE, orig_strict) = o
             /\ to_ltrb(self, TRUE, orig_strict) = corners(o)

C11_Witness ==
  /\ op = "predict"
  /\ before.original_ltwh # None
  /\ self.original_ltwh = None
  /\ to_ltwh(self, TRUE, TRUE) = None
  /\ to_ltwh(self, TRUE, FALSE) # None

\* C12, as the claim states it: in the three-detection scenario the track
\* is Tentative until the 3rd update makes it Confirmed; after the 3rd
\* update trajectory is [(0,0),(1,0),(2,0)] and the slope is 0.
C12_ConfirmedByThirdUpdate ==
  /\ count.update < 3 => self.state = Tentative
  /\ count.update = 3 =>
       /\ self.state = Confirmed
       /\ self.trajectory = ScenarioCenters
       /\ get_trajectory_slope(self) # None
       /\ get_trajectory_slope(self)[1] = 0

\* C12, amended: in the three-detection scenario the track becomes
\* Confirmed on the 2nd update (hits = 3 = n_init) and is still Confirmed
\* after the 3rd; after the 3rd update trajectory is [(0,0),(1,0),(2,0)] in
\* that order and the slope is 0.
C12_ConfirmedBySecondUpdate ==
  /\ count.update < 2 => self.state = Tentative
  /\ count.update >= 2 => self.state = Confirmed
  /\ count.update = 3 =>
       /\ self.trajectory = ScenarioCenters
       /\ get_trajectory_slope(self) # None
       /\ get_trajectory_slope(self)[1] = 0

C12_Witness ==
  /\ op = "update"
  /\ count.update = 3
  /\ self.state = Confirmed
  /\ self.original_ltwh[3] > 1
  /\ Len(self.trajectory) = 3

\* C13: get_velocity returns (None, None, None) and get_trajectory_slope
\* returns None exactly when the trajectory has fewer than 2 points; with 2
\* points or more, two equal consecutive points included, every output of
\* both is present.
C13_KinematicsAvailability ==
  LET n == Len(self.trajectory)
  IN  /\ \A fps \in {1, 5} :
           LET v == get_velocity(self, fps)
           IN  /\ (v = << None, None, None >>) <=> (n < 2)
               /\ n >= 2 => (v[1] # None /\ v[2] # None /\ v[3] # None)
               /\ n >= 2 => (Len(v[2]) = n - 1 /\ Len(v[3]) = n - 1)
      /\ (get_trajectory_slope(self) = None) <=> (n < 2)
      /\ n >= 2 => get_trajectory_slope(self)[2] # 0

C13_Witness ==
  /\ Len(self.trajectory) >= 2
  /\ self.trajectory[1] = self.trajectory[2]
  /\ get_trajectory_slope(self) # None
  /\ get_velocity(self, 5)[2][1] = << 0 >>

\* C14: the state never moves backward: the only changes of state are
\* Tentative -> Confirmed, made by update, and Tentative -> Deleted and
\* Confirmed -> Deleted, made by mark_missed.
C14_StateMovesForward ==
  before.state # self.state =>
    \/ /\ op = "update"
       /\ before.state = Tentative
       /\ self.state = Confirmed
    \/ /\ op = "mark_missed"
       /\ before.state \in {Tentative, Confirmed}
       /\ self.state = Deleted

C14_Witness ==
  /\ op = "mark_missed"
  /\ before.state = Confirmed
  /\ self.state = Deleted
  /\ count.update >= 1
  /\ count.predict >= 1

\* C15: predict clears original_ltwh, det_conf, instance_mask and others and
\* keeps det_class; mark_missed keeps all five; update sets all five from
\* its detection.  So after a predict not followed by an update the four are
\* None and det_class is that of the last matched detection (or the
\* constructor's), and after an update all five are the detection's.
C15_DetectionSnapshot ==
  LET cleared == /\ self.original_ltwh = None
                 /\ self.det_conf = None
                 /\ self.instance_mask = None
                 /\ self.others = None
  IN  /\ op = "predict" => (cleared /\ self.det_class = before.det_class)
      /\ op = "mark_missed" =>
           /\ self.original_ltwh = before.original_ltwh
           /\ self.det_conf = before.det_conf
           /\ self.instance_mask = before.instance_mask
           /\ self.others = before.others
           /\ self.det_class = before.det_class
      /\ op = "update" =>
           /\ self.original_ltwh = detection.ltwh
           /\ self.det_conf = detection.confidence
           /\ self.instance_mask = detection.instance_mask
           /\ self.others = detection.others
           /\ self.det_class = detection.class_name
      /\ count.predict_since_update > 0 => cleared

C15_Witness ==
  /\ op = "predict"
  /\ count.update >= 1
  /\ before.det_conf # None
  /\ before.others # None
  /\ self.det_conf = None
  /\ self.det_class = << "car" >>

\* C16: in every reachable state len(features) <= hits and
\* len(trajectory) <= hits.
C16_CachesBoundedByHits ==
  /\ Len(self.features) <= self.hits
  /\ Len(self.trajectory) <= self.hits

C16_Witness ==
  /\ self.hits >= 3
  /\ Len(self.features) = self.hits
  /\ Len(self.trajectory) = self.hits

\* C17: mark_missed changes no field but state.
C17_MarkMissedFrame ==
  op = "mark_missed" =>
    /\ DOMAIN self = DOMAIN before
    /\ \A f \in DOMAIN self \ {"state"} : self[f] = before[f]

C17_Witness ==
  /\ op = "mark_missed"
  /\ before.state # self.state
  /\ self.features # << >>
  /\ self.original_ltwh # None
  /\ self.hits > 1

\* C18: for the same flags and the same track, to_ltrb is (left, top,
\* left + width, top + height) of the box to_ltwh returns, None when that
\* is None, and corner minus corner gives the width/height box back, for
\* the filter-derived box and for the original box.
C18_CornerFormRoundTrip ==
  \A orig \in BOOLEAN, orig_strict \in BOOLEAN :
    LET a == to_ltwh(self, orig, orig_strict)
        b == to_ltrb(self, orig, orig_strict)
    IN  /\ (a = None) <=> (b = None)
        /\ a # None =>
             /\ b = << a[1], a[2], a[1] + a[3], a[2] + a[4] >>
             /\ << b[1], b[2], b[3] - b[1], b[4] - b[2] >> = a
        /\ to_tlwh(self, orig, orig_strict) = a
        /\ to_tlbr(self, orig, orig_strict) = b

C18_Witness ==
  /\ op = "update"
  /\ self.original_ltwh # None
  /\ self.original_ltwh[3] # self.original_ltwh[4]
  /\ to_ltrb(self, TRUE, FALSE) # to_ltrb(self, FALSE, FALSE)
  /\ to_ltrb(self, FALSE, FALSE) # None

\* C19: a call of to_ltwh, to_tlwh, to_ltrb, to_tlbr (any flags) or
\* to_center leaves every field of the track as it was.
C19_AccessorsLeaveTrack ==
  op \in {"to_center", "to_ltwh", "to_tlwh", "to_ltrb", "to_tlbr"} =>
    self = before

C19_Witness ==
  /\ op = "to_ltrb"
  /\ calls >= 2
  /\ self.original_ltwh # None
  /\ self.original_ltwh[1] > 0
  /\ self.original_ltwh[3] > 1

\* C20: age is 1 plus the predict calls made, hits is 1 plus the update
\* calls made, time_since_update is the number of predict calls since the
\* last update (or since construction), so 0 <= time_since_update <= age - 1.
C20_CounterBookkeeping ==
  /\ self.age = 1 + count.predict
  /\ self.hits = 1 + count.update
  /\ self.time_since_update = count.predict_since_update
  /\ 0 <= self.time_since_update
  /\ self.time_since_update <= self.age - 1

C20_Witness ==
  /\ count.predict >= 2
  /\ count.update >= 1
  /\ count.predict_since_update = 1
  /\ self.state = Deleted
  /\ self.time_since_update = 1

====
